---- MODULE Spec2Model ----
(***************************************************************************)
(* Verification model of two gadgets of the repository:                    *)
(*   - the base-split / trailing-zeros gadget (gadgets/split_base.rs)      *)
(*   - the BLAKE2B hint generator and public-data wiring                   *)
(*     (chip/hash/blake/blake2b/generator.rs)                              *)
(*                                                                         *)
(* 64-bit unsigned integers and the mantissas of binary64 floating point   *)
(* numbers do not fit the model checker's integers, so they are held as    *)
(* little-endian sequences of 16-bit limbs without leading zero limbs      *)
(* (<<>> is zero); every operation on them is exact.                       *)
(***************************************************************************)
EXTENDS Integers, Sequences, FiniteSets, TLC

(***************************************************************************)
(* Bounds of the model.                                                    *)
(***************************************************************************)
\* largest trailing_zeros argument tried (u32 in the source)
MaxN == 66
\* largest number of 128-byte chunks of a padded message
MaxChunks == 3
\* largest number of messages of a batch
MaxMsgs == 3
\* largest chunk_size entry of a batch
MaxChunkSize == 3

(***************************************************************************)
(* Exact arithmetic on naturals held as 16-bit limbs.                      *)
(***************************************************************************)
Radix == 65536

RECURSIVE BigNorm(_)
BigNorm(a) ==
    IF a = <<>> THEN <<>>
    ELSE IF a[Len(a)] = 0 THEN BigNorm(SubSeq(a, 1, Len(a) - 1))
    ELSE a

RECURSIVE BigFromNat(_)
BigFromNat(v) ==
    IF v = 0 THEN <<>> ELSE <<v % Radix>> \o BigFromNat(v \div Radix)

RECURSIVE BigToNat(_)
BigToNat(a) ==
    IF a = <<>> THEN 0 ELSE a[1] + Radix * BigToNat(Tail(a))

\* a * m + c for a small multiplier m (m < 2^15) and carry c
RECURSIVE BigMulAddRaw(_, _, _)
BigMulAddRaw(a, m, c) ==
    IF a = <<>> THEN BigFromNat(c)
    ELSE LET t == a[1] * m + c
         IN  <<t % Radix>> \o BigMulAddRaw(Tail(a), m, t \div Radix)

BigMulAdd(a, m, c) == BigNorm(BigMulAddRaw(a, m, c))

\* quotient (same length as a, not normalised) and remainder of a by a
\* small divisor d (0 < d < 2^15)
RECURSIVE BigDivRemRaw(_, _)
BigDivRemRaw(a, d) ==
    IF a = <<>> THEN [q |-> <<>>, r |-> 0]
    ELSE LET hi  == BigDivRemRaw(Tail(a), d)
             cur == hi.r * Radix + a[1]
         IN  [q |-> <<cur \div d>> \o hi.q, r |-> cur % d]

BigDivRem(a, d) ==
    LET qr == BigDivRemRaw(a, d) IN [q |-> BigNorm(qr.q), r |-> qr.r]

\* a < b, both normalised
RECURSIVE BigLess(_, _)
BigLess(a, b) ==
    IF Len(a) # Len(b) THEN Len(a) < Len(b)
    ELSE IF a = <<>> THEN FALSE
    ELSE IF a[Len(a)] # b[Len(b)] THEN a[Len(a)] < b[Len(b)]
    ELSE BigLess(SubSeq(a, 1, Len(a) - 1), SubSeq(b, 1, Len(b) - 1))

BigLeq(a, b) == a = b \/ BigLess(a, b)

\* acc * b^k; acc is looked at in every step, which keeps the evaluation
\* flat
RECURSIVE BigPowFrom(_, _, _)
BigPowFrom(b, k, acc) ==
    IF acc = <<>> \/ k = 0 THEN acc
    ELSE BigPowFrom(b, k - 1, BigMulAdd(acc, b, 0))

BigPow(b, k) == BigPowFrom(b, k, <<1>>)

RECURSIVE Pow2(_)
Pow2(k) == IF k = 0 THEN 1 ELSE 2 * Pow2(k - 1)

RECURSIVE BitLenNat(_)
BitLenNat(v) == IF v = 0 THEN 0 ELSE 1 + BitLenNat(v \div 2)

BigBitLen(a) ==
    IF a = <<>> THEN 0 ELSE 16 * (Len(a) - 1) + BitLenNat(a[Len(a)])

\* floor(a / 2^s) and whether the division left a remainder
RECURSIVE BigShiftRight(_, _)
BigShiftRight(a, s) ==
    IF a = <<>> THEN [q |-> <<>>, inexact |-> FALSE]
    ELSE IF s >= 16
    THEN LET rest == BigShiftRight(Tail(a), s - 16)
         IN  [q |-> rest.q, inexact |-> rest.inexact \/ a[1] # 0]
    ELSE LET qr == BigDivRem(a, Pow2(s))
         IN  [q |-> qr.q, inexact |-> qr.r # 0]

\* 2^64, one more than a u64 can hold
TwoPow64 == <<0, 0, 0, 0, 1>>

(***************************************************************************)
(* binary64 arithmetic of num_limbs_to_check.  A non-negative float is     *)
(* [m, e] standing for m / 2^e, m an exact natural.                        *)
(***************************************************************************)
F64MantissaBits == 53

\* 2.0_f64.log(base as f64) = ln(2.0) / ln(base), as binary64 delivers it
F64Log2(base) ==
    CASE base = 2  -> [m |-> <<1>>, e |-> 0]
      [] base = 3  -> [m |-> <<13629, 38965, 12435, 20>>, e |-> 53]
      [] base = 4  -> [m |-> <<1>>, e |-> 1]
      [] base = 5  -> [m |-> <<3955, 26885, 36916, 27>>, e |-> 54]
      [] base = 8  -> [m |-> <<43691, 43690, 43690, 10>>, e |-> 53]
      [] base = 13 -> [m |-> <<25631, 63705, 19348, 17>>, e |-> 54]
      [] base = 16 -> [m |-> <<1>>, e |-> 2]
      [] base = 64 -> [m |-> <<43691, 43690, 43690, 10>>, e |-> 54]

\* the exact natural p / 2^e rounded to a 53-bit mantissa, ties to even
F64Round(p, e) ==
    LET s == BigBitLen(p) - F64MantissaBits
    IN  IF s <= 0 THEN [m |-> p, e |-> e]
        ELSE LET qr   == BigDivRem(p, Pow2(s))
                 half == Pow2(s - 1)
                 up   == qr.r > half \/ (qr.r = half /\ qr.q[1] % 2 = 1)
                 q    == IF up THEN BigMulAdd(qr.q, 1, 1) ELSE qr.q
             IN  [m |-> BigMulAdd(q, Pow2(s), 0), e |-> e]

\* n as f64 * v, n an integer a float holds exactly
F64Mul(n, v) == F64Round(BigMulAdd(v.m, n, 0), v.e)

\* v.ceil() as usize
F64CeilToUsize(v) ==
    LET sh == BigShiftRight(v.m, v.e)
    IN  BigToNat(sh.q) + (IF sh.inexact THEN 1 ELSE 0)

\* mutant: the product truncated instead of rounded up
num_limbs_to_check_floor(n, base) ==
    BigToNat(BigShiftRight(F64Mul(n, F64Log2(base)).m, F64Log2(base).e).q)

\* fn num_limbs_to_check(n: u32, base: usize) -> usize
num_limbs_to_check(n, base) == F64CeilToUsize(F64Mul(n, F64Log2(base)))

(***************************************************************************)
(* The base-sum gate's witness: the little-endian base-B digits of the     *)
(* value routed to its sum wire.                                           *)
(***************************************************************************)
WIRE_LIMBS_START == 1

\* the first num base-B digits of v, little-endian
RECURSIVE BaseSplitGenerator(_, _, _)
BaseSplitGenerator(v, base, num) ==
    IF num = 0 THEN <<>>
    ELSE LET qr == BigDivRem(v, base)
         IN  <<qr.r>> \o BaseSplitGenerator(qr.q, base, num - 1)

\* sum of d[i] * base^(i-1), the gate's reconstruction, by Horner's rule
\* from the top digit down: acc holds the sum of the digits above i
RECURSIVE BaseSumFrom(_, _, _, _)
BaseSumFrom(d, base, i, acc) ==
    IF acc = <<>> /\ i = 0 THEN <<>>
    ELSE IF i = 0 THEN acc
    ELSE BaseSumFrom(d, base, i - 1, BigMulAdd(acc, base, d[i]))

BaseSum(d, base) == BaseSumFrom(d, base, Len(d), <<>>)

\* u64::trailing_zeros
RECURSIVE TrailingZerosNat(_)
TrailingZerosNat(v) == IF v % 2 = 1 THEN 0 ELSE 1 + TrailingZerosNat(v \div 2)

RECURSIVE TrailingZeros64(_)
TrailingZeros64(a) ==
    IF a = <<>> THEN 64
    ELSE IF a[1] = 0 THEN 16 + TrailingZeros64(Tail(a)) - (IF Tail(a) = <<>> THEN 64 ELSE 0)
    ELSE TrailingZerosNat(a[1])

(***************************************************************************)
(* Inputs tried.                                                           *)
(***************************************************************************)
\* const generic B
Bases == {2, 3, 4, 5, 8, 13, 16, 64}

\* values of the target x: 0, 1, 2, 27, 160, 512, 2^32, 5^27, 2^63, 2^64-1
XValues == { <<>>, <<1>>, <<2>>, <<27>>, <<160>>, <<512>>, <<0, 0, 1>>,
             <<1949, 64016, 51091, 26469>>, <<0, 0, 0, 32768>>,
             <<65535, 65535, 65535, 65535>> }

\* config.num_routed_wires
RoutedWires == {12, 80}

VARIABLES
    x,                \* value of the target x (a u64)
    num_routed_wires, \* self.config.num_routed_wires
    pc,               \* where the call stands
    B,                \* const generic B of the call
    trailing_zeros,   \* argument of assert_trailing_zeros
    gates,            \* gates added to the builder
    limbs,            \* targets returned by split_le_base
    limb_values,      \* value the gate's generator gives each of them
    zero_asserted,    \* targets handed to assert_zero, in order
    padded_message,   \* witness values of the padded_message targets
    message_len,      \* witness value of the message_len target
    unassigned,       \* targets the witness holds no value for yet
    hpc,              \* where BLAKE2BHintGenerator stands
    compress_calls,   \* the calls of BLAKE2BGadget::compress, in order
    read_unassigned,  \* targets run_once read while they held no value
    out_buffer,       \* values run_once set on the digest_bytes targets
    chunk_sizes,      \* chunk count of each message of the batch
    num_digests,      \* number of 32-byte digests of the batch
    ppc,              \* where BLAKE2BPublicData::add_virtual stands
    end_bits,         \* end_bits_targets, each by the constant it holds
    hash_state,       \* hash_state_targets
    next_virtual      \* index of the builder's next virtual target

splitVars == <<x, num_routed_wires, pc, B, trailing_zeros, gates, limbs,
               limb_values, zero_asserted>>

hintVars == <<padded_message, message_len, unassigned, hpc, compress_calls,
              read_unassigned, out_buffer>>

publicVars == <<chunk_sizes, num_digests, ppc, end_bits, hash_state,
                next_virtual>>

vars == <<splitVars, hintVars, publicVars>>

\* the gadget a specification is not about stays as constructed
SplitIdle ==
    /\ x = <<>>
    /\ num_routed_wires = 0
    /\ pc = "idle"
    /\ B = 0
    /\ trailing_zeros = 0
    /\ gates = <<>>
    /\ limbs = <<>>
    /\ limb_values = <<>>
    /\ zero_asserted = <<>>

HintIdle ==
    /\ padded_message = <<>>
    /\ message_len = 0
    /\ unassigned = {}
    /\ hpc = "idle"
    /\ compress_calls = <<>>
    /\ read_unassigned = {}
    /\ out_buffer = <<>>

PublicIdle ==
    /\ chunk_sizes = <<>>
    /\ num_digests = 0
    /\ ppc = "idle"
    /\ end_bits = <<>>
    /\ hash_state = <<>>
    /\ next_virtual = 0

(***************************************************************************)
(* gadgets/split_base.rs                                                   *)
(***************************************************************************)
\* mutant: digits for 63 bits only
SplitNumLimbs63(base) == num_limbs_to_check(63, base)

\* let num_limbs = num_limbs_to_check(64, B)
SplitNumLimbs(base) == num_limbs_to_check(64, base)

\* the targets split_le_base returns for the gate it added
SplitTargets(gate, num_limbs) ==
    [i \in 1..num_limbs |->
        [gate |-> gate, input |-> WIRE_LIMBS_START + i - 1]]

\* mutant: the assert! with <= for <
EnoughRoutedWiresLeq(t, wires) == t <= wires

\* the assert! of assert_trailing_zeros
EnoughRoutedWires(t, wires) == t < wires

InitSplit ==
    /\ x \in XValues
    /\ num_routed_wires \in RoutedWires
    /\ pc = "new"
    /\ B = 0
    /\ trailing_zeros = 0
    /\ gates = <<>>
    /\ limbs = <<>>
    /\ limb_values = <<>>
    /\ zero_asserted = <<>>
    /\ HintIdle
    /\ PublicIdle

\* adds one BaseSumGate::<B>, routes x to its sum wire (so the gate's
\* generator splits the value of x) and returns the gate's limb wires
split_le_base(base) ==
    /\ pc = "new"
    /\ LET num_limbs == SplitNumLimbs(base)
           gate      == Len(gates)
       IN  /\ gates' = Append(gates, [base |-> base, num_limbs |-> num_limbs])
           /\ limbs' = SplitTargets(gate, num_limbs)
           /\ limb_values' = BaseSplitGenerator(x, base, num_limbs)
    /\ B' = base
    /\ pc' = "split"
    /\ UNCHANGED <<x, num_routed_wires, trailing_zeros, zero_asserted>>
    /\ UNCHANGED <<hintVars, publicVars>>

\* split_le_base, then the assert! on the routed wires, then assert_zero
\* on limbs[0..t]; indexing past the limbs panics
assert_trailing_zeros(base, n) ==
    /\ pc = "new"
    /\ LET num_limbs == SplitNumLimbs(base)
           gate      == Len(gates)
           ls        == SplitTargets(gate, num_limbs)
           t         == num_limbs_to_check(n, base)
       IN  /\ gates' = Append(gates, [base |-> base, num_limbs |-> num_limbs])
           /\ limbs' = ls
           /\ limb_values' = BaseSplitGenerator(x, base, num_limbs)
           /\ IF ~EnoughRoutedWires(t, num_routed_wires)
              THEN /\ pc' = "not_enough_routed_wires"
                   /\ zero_asserted' = <<>>
              ELSE IF t > Len(ls)
              THEN /\ pc' = "index_out_of_bounds"
                   /\ zero_asserted' = ls
              ELSE /\ pc' = "asserted"
                   /\ zero_asserted' = SubSeq(ls, 1, t)
    /\ B' = base
    /\ trailing_zeros' = n
    /\ UNCHANGED <<x, num_routed_wires>>
    /\ UNCHANGED <<hintVars, publicVars>>

NextSplit ==
    \/ \E base \in Bases : split_le_base(base)
    \/ \E base \in Bases, n \in 0..MaxN : assert_trailing_zeros(base, n)

SpecSplit == InitSplit /\ [][NextSplit]_vars

(***************************************************************************)
(* Properties of the base-split gadget.                                    *)
(***************************************************************************)
\* the call has produced its limbs
LimbsMade == pc # "new"

\* assert_trailing_zeros has ended, one way or another
AssertEnded == pc \in {"asserted", "not_enough_routed_wires", "index_out_of_bounds"}

\* k is the least integer with base^k >= 2^64 (powers of base grow, so
\* it is enough that base^(k-1) is too small), by exact integer arithmetic
IsLeastPowerGeq2Pow64(k, base) ==
    /\ BigLeq(TwoPow64, BigPow(base, k))
    /\ k > 0 => BigLess(BigPow(base, k - 1), TwoPow64)

\* k is the least integer with base^k > 2^64
IsLeastPowerGt2Pow64(k, base) ==
    /\ BigLess(TwoPow64, BigPow(base, k))
    /\ k > 0 => BigLeq(BigPow(base, k - 1), TwoPow64)

\* x has at least n trailing zero bits (every bit of 0 is a zero bit)
HasTrailingZeroBits(v, n) == v = <<>> \/ TrailingZeros64(v) >= n

\* the value the witness gives a limb target
TargetValue(t) == limb_values[t.input - WIRE_LIMBS_START + 1]

\* every zero-assertion added is satisfied by the witness
ZeroAssertionsHold ==
    \A i \in 1..Len(zero_asserted) : TargetValue(zero_asserted[i]) = 0

\* t = ceil(n * log_B(2)) of the call that ended
LimbsToCheck == num_limbs_to_check(trailing_zeros, B)

\* C1: when the zero-assertions of assert_trailing_zeros::<B>(x, n) are
\* satisfied, x has at least n trailing zero bits.
C1_TrailingZeroSoundness ==
    (pc = "asserted" /\ ZeroAssertionsHold)
        => HasTrailingZeroBits(x, trailing_zeros)

\* C2: when x has z trailing zero bits and n <= z, the zero-assertions of
\* assert_trailing_zeros::<B>(x, n) are satisfied.
C2_TrailingZeroCompleteness ==
    (pc = "asserted" /\ HasTrailingZeroBits(x, trailing_zeros))
        => ZeroAssertionsHold

\* C5 as stated: split_le_base::<B> returns exactly k cells, k the least
\* integer with B^k > 2^64.
C5_DigitCountStrict ==
    LimbsMade => IsLeastPowerGt2Pow64(Len(limbs), B)

\* C5 amended: split_le_base::<B> returns exactly k cells, k fixed by B
\* alone and the least integer with B^k >= 2^64; 28 for B = 5 and 11 for
\* B = 64.
C5_DigitCount ==
    LimbsMade =>
        /\ IsLeastPowerGeq2Pow64(Len(limbs), B)
        /\ B = 5 => Len(limbs) = 28
        /\ B = 64 => Len(limbs) = 11
        /\ \A i \in 1..Len(limbs) :
               limbs[i] = [gate |-> 0, input |-> WIRE_LIMBS_START + i - 1]

C5_Witness == pc = "split" /\ B = 2 /\ Len(limbs) = 64

C9_AbortOrAssertAll ==
    AssertEnded =>
        IF LimbsToCheck >= num_routed_wires
        THEN pc = "not_enough_routed_wires" /\ zero_asserted = <<>>
        ELSE /\ pc = "asserted"
             /\ Len(zero_asserted) = LimbsToCheck
             /\ \A i \in 1..LimbsToCheck : zero_asserted[i] = limbs[i]

\* C9 amended: with t >= num_routed_wires the call aborts without any
\* zero-assertion; otherwise, with t at most the number of digits, it adds
\* one on each of the first t digits and returns; otherwise (t beyond the
\* digits there are) it panics on the index after asserting every digit.
\* It never returns having asserted fewer than t digits.
C9_AbortAssertOrPanic ==
    AssertEnded =>
        /\ (LimbsToCheck >= num_routed_wires) <=> (pc = "not_enough_routed_wires")
        /\ pc = "not_enough_routed_wires" => zero_asserted = <<>>
        /\ (LimbsToCheck < num_routed_wires /\ LimbsToCheck <= Len(limbs))
               <=> (pc = "asserted")
        /\ pc = "asserted" =>
               /\ Len(zero_asserted) = LimbsToCheck
               /\ \A i \in 1..LimbsToCheck : zero_asserted[i] = limbs[i]
        /\ pc = "index_out_of_bounds" => zero_asserted = limbs

C9_Witness ==
    /\ pc = "not_enough_routed_wires"
    /\ num_routed_wires = 12
    /\ LimbsToCheck = 12
    /\ zero_asserted = <<>>
(***************************************************************************)
(* chip/hash/blake/blake2b/generator.rs: BLAKE2BHintGenerator              *)
(*                                                                         *)
(* BLAKE2BGadget::compress is left uninterpreted: the eight words a call   *)
(* returns are named by the calls that led to them, so two states are      *)
(* equal exactly when the same calls, with the same arguments, in the same *)
(* order, produced them from INITIAL_HASH.                                 *)
(***************************************************************************)
\* bytes of a chunk
CHUNK_BYTES == 128
\* cells of digest_bytes
DIGEST_BYTES == 32
\* words of the hash state
STATE_WORDS == 8

\* the eight state words reached by the compress calls of history h
StateOf(h) == [i \in 1..STATE_WORDS |-> [h |-> h, word |-> i - 1]]

INITIAL_HASH == StateOf(<<>>)

\* BLAKE2BGadget::compress(chunk, &mut state, bytes_compressed, last_chunk)
compress(chunk, state, bytes_compressed, last_chunk) ==
    StateOf(Append(state[1].h,
                   [chunk |-> chunk, bytes_compressed |-> bytes_compressed,
                    last_chunk |-> last_chunk]))

\* u64_to_le_field_bytes: byte k is bits 8k..8k+7 of the word
u64_to_le_field_bytes(w) == [k \in 1..8 |-> [of |-> w, byte |-> k - 1]]

\* x.as_canonical_u64() as u8
AsU8(v) == v % 256

\* the targets of the generator
PaddedTarget(j) == [target |-> "padded_message", index |-> j]
MessageLenTarget == [target |-> "message_len", index |-> 0]

\* fn dependencies(&self): self.padded_message.clone()
dependencies == {PaddedTarget(j) : j \in 1..Len(padded_message)}

\* the targets run_once reads: get_targets(&self.padded_message) and
\* get_target(self.message_len)
RunOnceReads ==
    {PaddedTarget(j) : j \in 1..Len(padded_message)} \cup {MessageLenTarget}

\* mutant: the last chunk taken to be the one after the last
LastChunkOffByOne(chunk_num, num_chunks) == chunk_num = num_chunks

\* let last_chunk = chunk_num == num_chunks - 1
LastChunk(chunk_num, num_chunks) == chunk_num = num_chunks - 1

\* the if last_chunk { .. } else { .. } on bytes_compressed
NextBytesCompressed(bytes_compressed, last_chunk, len) ==
    IF last_chunk THEN len ELSE bytes_compressed + CHUNK_BYTES

\* the for loop over padded_message.chunks_exact(128).enumerate(), from
\* chunk chunk_num on; calls collects the compress calls made
RECURSIVE CompressLoop(_, _, _, _, _, _, _)
CompressLoop(bytes, num_chunks, len, chunk_num, state, bytes_compressed, calls) ==
    IF chunk_num >= Len(bytes) \div CHUNK_BYTES
    THEN [state |-> state, calls |-> calls]
    ELSE LET chunk      == SubSeq(bytes, CHUNK_BYTES * chunk_num + 1,
                                  CHUNK_BYTES * (chunk_num + 1))
             last_chunk == LastChunk(chunk_num, num_chunks)
             bc         == NextBytesCompressed(bytes_compressed, last_chunk, len)
         IN  CompressLoop(bytes, num_chunks, len, chunk_num + 1,
                          compress(chunk, state, bc, last_chunk), bc,
                          Append(calls,
                                 [chunk |-> chunk, state |-> state,
                                  bytes_compressed |-> bc,
                                  last_chunk |-> last_chunk]))

\* state[0..4].iter().flat_map(|x| u64_to_le_field_bytes(*x))
DigestOf(state) ==
    u64_to_le_field_bytes(state[1]) \o u64_to_le_field_bytes(state[2])
        \o u64_to_le_field_bytes(state[3]) \o u64_to_le_field_bytes(state[4])

\* lengths of padded messages and values of message_len tried
PaddedLens == {CHUNK_BYTES * q + r : q \in 0..MaxChunks, r \in {0, 1}}
MessageLens == {CHUNK_BYTES * q + r : q \in 0..MaxChunks, r \in {0, 1}}

\* value of the first cell of a padded message; cell j holds Fill + j - 1
Fills == {0, 200}

\* targets whose assignment is left to the run: the first and the last
\* cell of the padded message and message_len
LateTargets(len) ==
    {PaddedTarget(j) : j \in {1, len} \cap 1..len} \cup {MessageLenTarget}

InitHint ==
    /\ \E len \in PaddedLens, fill \in Fills :
           /\ padded_message = [j \in 1..len |-> fill + j - 1]
           /\ unassigned \in SUBSET LateTargets(len)
    /\ message_len \in MessageLens
    /\ hpc = "pending"
    /\ compress_calls = <<>>
    /\ read_unassigned = {}
    /\ out_buffer = <<>>
    /\ SplitIdle
    /\ PublicIdle

\* another generator, or the caller's inputs, give a target its value
set_target(t) ==
    /\ hpc = "pending"
    /\ t \in unassigned
    /\ unassigned' = unassigned \ {t}
    /\ UNCHANGED <<padded_message, message_len, hpc, compress_calls,
                   read_unassigned, out_buffer>>
    /\ UNCHANGED <<splitVars, publicVars>>

\* the scheduler's rule: a generator may run once every target of its
\* dependencies() holds a value
DependenciesAssigned == dependencies \cap unassigned = {}

\* fn run_once(&self, witness, out_buffer), run by the scheduler
run_once ==
    /\ hpc = "pending"
    /\ DependenciesAssigned
    /\ IF RunOnceReads \cap unassigned # {}
       THEN /\ hpc' = "unassigned_target_read"
            /\ read_unassigned' = RunOnceReads \cap unassigned
            /\ UNCHANGED <<compress_calls, out_buffer>>
       ELSE IF Len(padded_message) % CHUNK_BYTES # 0
       THEN /\ hpc' = "length_assert_failed"
            /\ UNCHANGED <<compress_calls, read_unassigned, out_buffer>>
       ELSE LET bytes      == [j \in 1..Len(padded_message) |->
                                   AsU8(padded_message[j])]
                num_chunks == Len(bytes) \div CHUNK_BYTES
                run        == CompressLoop(bytes, num_chunks, message_len, 0,
                                           INITIAL_HASH, 0, <<>>)
            IN  /\ hpc' = "done"
                /\ compress_calls' = run.calls
                /\ out_buffer' = DigestOf(run.state)
                /\ UNCHANGED read_unassigned
    /\ UNCHANGED <<padded_message, message_len, unassigned>>
    /\ UNCHANGED <<splitVars, publicVars>>

NextHint ==
    \/ \E t \in unassigned : set_target(t)
    \/ run_once

SpecHint == InitHint /\ [][NextHint]_vars

(***************************************************************************)
(* Properties of BLAKE2BHintGenerator.                                     *)
(***************************************************************************)
\* number of 128-byte chunks of the padded message
NumChunks == Len(padded_message) \div CHUNK_BYTES

\* chunk i (from 1) of the padded message, as bytes
ChunkBytes(i) ==
    [j \in 1..CHUNK_BYTES |-> padded_message[CHUNK_BYTES * (i - 1) + j] % 256]

\* the state call i of compress returned
Returned(i) ==
    compress(compress_calls[i].chunk, compress_calls[i].state,
             compress_calls[i].bytes_compressed, compress_calls[i].last_chunk)

\* C3: over n >= 1 chunks compress is called n times, in chunk order, from
\* INITIAL_HASH and each call on the state the one before returned; call
\* i < n gets byte counter 128 * i and last_chunk false, call n gets
\* message_len and last_chunk true.
C3_ByteCounterRule ==
    (hpc = "done" /\ NumChunks >= 1) =>
        /\ Len(compress_calls) = NumChunks
        /\ \A i \in 1..Len(compress_calls) :
               /\ compress_calls[i].chunk = ChunkBytes(i)
               /\ compress_calls[i].state =
                      (IF i = 1 THEN INITIAL_HASH ELSE Returned(i - 1))
               /\ compress_calls[i].last_chunk = (i = NumChunks)
               /\ i < NumChunks =>
                      compress_calls[i].bytes_compressed = CHUNK_BYTES * i
               /\ i = NumChunks =>
                      compress_calls[i].bytes_compressed = message_len

C3_Witness ==
    /\ hpc = "done"
    /\ NumChunks = 3
    /\ message_len = 257
    /\ Len(compress_calls) = 3
    /\ compress_calls[2].bytes_compressed = 256
    /\ compress_calls[3].last_chunk

\* message_len fits a padded message of n chunks
LenFitsChunks(len, n) ==
    ~(len > CHUNK_BYTES * n \/ (n > 1 /\ len <= CHUNK_BYTES * (n - 1)))

\* C7: with message_len not fitting the chunk count n, run_once fails and
\* writes no digest (stated for n >= 1, where a message_len that fits
\* exists).
C7_MismatchIsFatal ==
    (NumChunks >= 1 /\ ~LenFitsChunks(message_len, NumChunks)) =>
        (hpc # "done" /\ out_buffer = <<>>)

\* C8: a digest written is the 32 little-endian bytes of the first four
\* state words after a compression called with last_chunk = true; none is
\* written without such a compression.
C8_DigestFromFinalCompression ==
    (hpc = "done" \/ out_buffer # <<>>) =>
        /\ Len(compress_calls) >= 1
        /\ compress_calls[Len(compress_calls)].last_chunk
        /\ Len(out_buffer) = DIGEST_BYTES
        /\ \A i \in 0..(DIGEST_BYTES - 1) :
               out_buffer[i + 1] =
                   [of   |-> Returned(Len(compress_calls))[(i \div 8) + 1],
                    byte |-> i % 8]

\* C10: run when its dependencies() hold values, in whatever order the
\* targets were given theirs, run_once reads no target that holds no value.
C10_DependenciesCoverReads ==
    /\ read_unassigned = {}
    /\ hpc # "unassigned_target_read"

(***************************************************************************)
(* chip/hash/blake/blake2b/generator.rs: BLAKE2BPublicData::add_virtual    *)
(***************************************************************************)
\* bytes of a message's digest: digests.chunks_exact(32)
PUBLIC_DIGEST_BYTES == 32
\* arrays of public_msg_chunk_targets: 16 * 1024
NUM_MSG_CHUNK_ARRAYS == 16384
\* hash state arrays of four targets a chunk exposes
STATE_ARRAYS == 8

\* builder.zero() and builder.one(), each by the constant it holds
ZeroTarget == 0
OneTarget == 1

\* builder.add_virtual_target_arr::<4>() with the next index at nv
VirtualArr(nv) == [k \in 1..4 |-> [target |-> "virtual", index |-> nv + k - 1]]

\* target of byte b (from 0) of the digest of message i (from 1)
DigestTarget(i, b) ==
    [target |-> "digest", index |-> PUBLIC_DIGEST_BYTES * (i - 1) + b]

\* digest.chunks_exact(4) with each array reversed
U32Digest(i) ==
    [a \in 1..STATE_ARRAYS |->
        [k \in 1..4 |-> DigestTarget(i, 4 * (a - 1) + (4 - k))]]

\* mutant: one zero for every chunk, the last one too
EndBitsOfMessageExtraZero(chunk_size) ==
    [p \in 1..chunk_size |-> ZeroTarget] \o <<OneTarget>>

\* what one message adds to end_bits_targets
EndBitsOfMessage(chunk_size) ==
    [p \in 1..(chunk_size - 1) |-> ZeroTarget] \o <<OneTarget>>

\* what one message adds to hash_state_targets
HashStateOfMessage(i, chunk_size, nv) ==
    [a \in 1..(STATE_ARRAYS * (chunk_size - 1)) |-> VirtualArr(nv + 4 * (a - 1))]
        \o U32Digest(i)

\* the for loop over digests.chunks_exact(32).zip_eq(chunk_sizes.iter()),
\* from message i on
RECURSIVE PublicLoop(_, _, _, _, _, _)
PublicLoop(sizes, digests, i, eb, hs, nv) ==
    IF i > Len(sizes) /\ i > digests
    THEN [pc |-> "done", end_bits |-> eb, hash_state |-> hs, next_virtual |-> nv]
    ELSE IF i > Len(sizes) \/ i > digests
    THEN [pc |-> "zip_eq_panic", end_bits |-> <<>>, hash_state |-> <<>>,
          next_virtual |-> nv]
    ELSE IF sizes[i] = 0
    THEN [pc |-> "subtract_overflow", end_bits |-> <<>>, hash_state |-> <<>>,
          next_virtual |-> nv]
    ELSE PublicLoop(sizes, digests, i + 1,
                    eb \o EndBitsOfMessage(sizes[i]),
                    hs \o HashStateOfMessage(i, sizes[i], nv),
                    nv + 4 * STATE_ARRAYS * (sizes[i] - 1))

\* the batches tried
RECURSIVE SeqsUpTo(_, _)
SeqsUpTo(S, n) ==
    IF n = 0 THEN {<<>>}
    ELSE LET shorter == SeqsUpTo(S, n - 1)
         IN  shorter \cup {Append(q, e) : q \in shorter, e \in S}

InitPublic ==
    /\ chunk_sizes \in SeqsUpTo(0..MaxChunkSize, MaxMsgs)
    /\ num_digests \in 0..MaxMsgs
    /\ ppc = "new"
    /\ end_bits = <<>>
    /\ hash_state = <<>>
    /\ next_virtual = 0
    /\ SplitIdle
    /\ HintIdle

add_virtual ==
    /\ ppc = "new"
    /\ LET run == PublicLoop(chunk_sizes, num_digests, 1, <<>>, <<>>,
                             next_virtual + 4 * NUM_MSG_CHUNK_ARRAYS)
       IN  /\ ppc' = run.pc
           /\ end_bits' = run.end_bits
           /\ hash_state' = run.hash_state
           /\ next_virtual' = run.next_virtual
    /\ UNCHANGED <<chunk_sizes, num_digests>>
    /\ UNCHANGED <<splitVars, hintVars>>

NextPublic == add_virtual

SpecPublic == InitPublic /\ [][NextPublic]_vars

(***************************************************************************)
(* Properties of BLAKE2BPublicData::add_virtual.                           *)
(***************************************************************************)
RECURSIVE SumSeq(_)
SumSeq(q) == IF q = <<>> THEN 0 ELSE q[1] + SumSeq(Tail(q))

\* position in end_bits of the final chunk of message m
FinalChunkPosition(m) == SumSeq(SubSeq(chunk_sizes, 1, m))

\* C4: for chunk counts c_1..c_m, each >= 1, end_bits has length
\* c_1 + ... + c_m and holds a 1 exactly at each message's final chunk:
\* one 1 per message, every other position 0.
C4_EndBitsLayout ==
    ppc = "done" =>
        /\ Len(end_bits) = SumSeq(chunk_sizes)
        /\ \A p \in 1..Len(end_bits) :
               end_bits[p] =
                   (IF \E m \in 1..Len(chunk_sizes) : p = FinalChunkPosition(m)
                    THEN 1 ELSE 0)
        /\ Cardinality({p \in 1..Len(end_bits) : end_bits[p] = 1})
               = Len(chunk_sizes)

C4_Witness ==
    /\ ppc = "done"
    /\ chunk_sizes = <<2, 1, 3>>
    /\ end_bits = <<0, 1, 1, 0, 0, 1>>
====
